---- MODULE Spec2Model ----
(***************************************************************************)
(* moneybags: a command-line ledger of hourly rates, invoices and costs.   *)
(* Money is a signed count of minor units (src/src/money.rs); the ledger   *)
(* (Moneybag) and its aggregates live in src/src/moneybag.rs; the command  *)
(* handlers live in src/src/main.rs.                                       *)
(*                                                                         *)
(* Text (String, &str) is modelled as a sequence of one-character strings, *)
(* Option<T> as a sequence of length 0 (None) or 1 (Some), and             *)
(* Result<Money, ParseIntError> as a record with an ok flag.               *)
(***************************************************************************)
EXTENDS Integers, Sequences, FiniteSets, TLC

VARIABLES
    invoices,   \* Moneybag.invoices : Vec<Invoice>
    costs,      \* Moneybag.costs    : Vec<Cost>
    rates,      \* Moneybag.rates    : HashMap<String, Rate>
    command,    \* the Command the main loop handed to handle_command last
    output,     \* the lines the last command handled wrote with println!
    status,     \* "running", or "panicked" once a handler has panicked
    cmds,       \* number of commands the main loop has handled
    amount,     \* the Money given to Display
    text,       \* the text given to FromStr
    result,     \* the value returned by the function exercised
    pc,         \* which function has been exercised
    rhs,        \* the right operand of the Money operator exercised
    overflow_checks  \* the build's overflow-checks setting (on in the dev
                     \* profile, off in the release profile)

vars ==
    <<invoices, costs, rates, command, output, status, cmds, amount, text, result, pc,
      rhs, overflow_checks>>

----------------------------------------------------------------------------
(* Bounds *)

\* Display / FromStr are exercised on every amount in -MaxAmount..MaxAmount
MaxAmount == 1100
\* the main loop handles at most MaxCmds commands
MaxCmds == 4
\* the aggregates are exercised on every invoice sequence of at most MaxLen
MaxLen == 3
\* the index given to an edit or delete command is in 0..MaxIndex
MaxIndex == 2
\* the operators of Money are exercised at their limits on a two's complement
\* integer of Bits bits standing for i64
Bits == 12

----------------------------------------------------------------------------
(* i64 arithmetic as Rust defines it *)

Abs(n) == IF n < 0 THEN -n ELSE n

\* i64 `/` by a nonzero divisor: the quotient is truncated toward zero
TruncDiv(a, b) ==
    IF (a < 0) = (b < 0) THEN Abs(a) \div Abs(b) ELSE -(Abs(a) \div Abs(b))

\* i64 `%`: the remainder has the sign of the dividend
Rem(a, b) == a - b * TruncDiv(a, b)

----------------------------------------------------------------------------
(* Text *)

DigitChars == <<"0", "1", "2", "3", "4", "5", "6", "7", "8", "9">>

DigitChar(d) == DigitChars[d + 1]

IsDigit(c) == \E d \in 0..9 : DigitChars[d + 1] = c

DigitVal(c) == CHOOSE d \in 0..9 : DigitChars[d + 1] = c

RECURSIVE NatToStr(_)
NatToStr(n) ==
    IF n < 10 THEN <<DigitChar(n)>>
    ELSE NatToStr(n \div 10) \o <<DigitChar(n % 10)>>

\* Display for i64 ("{}"): a minus sign only for a negative value
I64ToStr(n) == IF n < 0 THEN <<"-">> \o NatToStr(-n) ELSE NatToStr(n)

\* "{:0>w}": right-aligned in width w, filled with '0'
RECURSIVE PadLeft0(_, _)
PadLeft0(s, w) == IF Len(s) >= w THEN s ELSE PadLeft0(<<"0">> \o s, w)

\* str::split(sep): the segments between separators, at least one segment
RECURSIVE SplitAcc(_, _, _, _)
SplitAcc(s, sep, done, cur) ==
    IF s = <<>> THEN Append(done, cur)
    ELSE IF Head(s) = sep THEN SplitAcc(Tail(s), sep, Append(done, cur), <<>>)
    ELSE SplitAcc(Tail(s), sep, done, Append(cur, Head(s)))

Split(s, sep) == SplitAcc(s, sep, <<>>, <<>>)

RECURSIVE DigitsToNat(_, _)
DigitsToNat(s, acc) ==
    IF s = <<>> THEN acc ELSE DigitsToNat(Tail(s), acc * 10 + DigitVal(Head(s)))

\* Result<T, E>, and the outcome of an expression that may panic
Ok(v) == [ok |-> TRUE, val |-> v]
Err == [ok |-> FALSE]
Panic == [ok |-> FALSE]

\* i64 `/`: panics ("attempt to divide by zero") on a zero divisor
I64Div(a, b) == IF b = 0 THEN Panic ELSE Ok(TruncDiv(a, b))

\* str::parse::<i64>: an optional sign, then one or more ASCII digits
ParseI64(s) ==
    LET signed == s # <<>> /\ Head(s) \in {"-", "+"}
        digits == IF signed THEN Tail(s) ELSE s
    IN  IF digits = <<>> \/ \E i \in 1..Len(digits) : ~IsDigit(digits[i])
        THEN Err
        ELSE IF signed /\ Head(s) = "-" THEN Ok(-DigitsToNat(digits, 0))
        ELSE Ok(DigitsToNat(digits, 0))

----------------------------------------------------------------------------
(* Money (src/src/money.rs); a Money is its amount in minor units *)

is_zero(m) == m = 0

MoneySub(a, b) == a - b
MoneyNeg(a) == -a
MoneyAdd(a, b) == a + b

\* Div for Money; Panic on a zero divisor
MoneyDiv(a, b) == I64Div(a * 100, b)

\* Div<i64> for Money; Panic on a zero divisor
MoneyDivScalar(a, n) == I64Div(a, n)

\* Mul for Money with the division by 100 left out
MoneyMulUnscaled(a, b) == a * b

\* Mul for Money rounding toward negative infinity
MoneyMulFloor(a, b) == (a * b) \div 100

\* Mul for Money
MoneyMul(a, b) == TruncDiv(a * b, 100)

MoneyMulScalar(a, n) == a * n

\* Sum for Money: a left fold with Add from Money { amount: 0 }
RECURSIVE FoldAdd(_, _)
FoldAdd(s, acc) == IF s = <<>> THEN acc ELSE FoldAdd(Tail(s), MoneyAdd(acc, Head(s)))

MoneySum(s) == FoldAdd(s, 0)

\* Display for Money
Format(m) ==
    I64ToStr(TruncDiv(m, 100)) \o <<".">> \o PadLeft0(I64ToStr(Abs(Rem(m, 100))), 2)

\* FromStr for Money
FromStr(s) ==
    LET segs == Split(s, ".")
        nums == [i \in 1..Len(segs) |-> ParseI64(segs[i])]
    IN  IF \E i \in 1..Len(segs) : ~nums[i].ok THEN Err
        ELSE Ok(nums[1].val * 100 + (IF Len(nums) = 2 THEN nums[2].val ELSE 0))

----------------------------------------------------------------------------
(* Moneybag (src/src/moneybag.rs) *)

None == <<>>
Some(x) == <<x>>

\* no command handled yet
NoCommand == [kind |-> "None"]

Rate(m) == [rate |-> m]

Invoice(d, a, r, c) == [date |-> d, amount |-> a, rate |-> r, customer |-> c]

Cost(d, a, n) == [date |-> d, amount |-> a, name |-> n]

\* the closure of sum_invoices: the value one invoice contributes
EffectiveAmount(invoice) ==
    IF invoice.rate # None
    THEN MoneyMul(invoice.amount, invoice.rate[1].rate)
    ELSE invoice.amount

sum_costs(cs) == MoneySum([i \in 1..Len(cs) |-> cs[i].amount])

sum_invoices(is) == MoneySum([i \in 1..Len(is) |-> EffectiveAmount(is[i])])

\* average_invoice without its guard on an empty slice
average_invoice_unguarded(is) == MoneyDivScalar(sum_invoices(is), Len(is))

\* Ok(the average), or Panic if the division panics
average_invoice(is) ==
    LET invoice_count == Len(is)
    IN  IF invoice_count # 0
        THEN MoneyDivScalar(sum_invoices(is), invoice_count)
        ELSE Ok(0)

----------------------------------------------------------------------------
(* Display and FromStr for Money, exercised on bounded inputs *)

\* texts typed at a prompt or on the command line
ParseInputs ==
    { <<"1", "0", ".", "0", "0">>,            \* "10.00"
      <<"1", ".", "5">>,                      \* "1.5"
      <<"7">>,                                \* "7"
      <<"-", "1", ".", "5", "3">>,            \* "-1.53"
      <<"1", ".", "2", ".", "3">>,            \* "1.2.3"
      <<"1", ".">>,                           \* "1."
      <<"x">>,                                \* "x"
      <<>> }                                  \* ""

MoneyInit ==
    /\ amount \in -MaxAmount..MaxAmount
    /\ text = <<>>
    /\ result = Err
    /\ pc = "start"
    /\ invoices = <<>>
    /\ costs = <<>>
    /\ rates = <<>>
    /\ command = NoCommand
    /\ output = <<>>
    /\ status = "running"
    /\ cmds = 0
    /\ rhs = 0
    /\ overflow_checks = TRUE

\* format!("{a}")
DoFormat ==
    /\ pc = "start"
    /\ text' = Format(amount)
    /\ pc' = "formatted"
    /\ UNCHANGED <<invoices, costs, rates, command, output, status, cmds, amount, result,
                   rhs, overflow_checks>>

\* Money::from_str on the text Display produced
DoParse ==
    /\ pc = "formatted"
    /\ result' = FromStr(text)
    /\ pc' = "parsed"
    /\ UNCHANGED <<invoices, costs, rates, command, output, status, cmds, amount, text,
                   rhs, overflow_checks>>

\* Money::from_str on a typed text
DoParseInput(t) ==
    /\ pc = "start"
    /\ text' = t
    /\ result' = FromStr(t)
    /\ pc' = "parsed_input"
    /\ UNCHANGED <<invoices, costs, rates, command, output, status, cmds, amount,
                   rhs, overflow_checks>>

MoneyNext ==
    \/ DoFormat
    \/ DoParse
    \/ \E t \in ParseInputs : DoParseInput(t)

SpecMoney == MoneyInit /\ [][MoneyNext]_vars

----------------------------------------------------------------------------
(* sum_invoices and average_invoice, exercised on bounded invoice slices *)

D2025_03 == <<"2", "0", "2", "5", "-", "0", "3">>   \* "2025-03"

AggAmounts == {1000, 50, -50, -250}
AggRates == {765, -40}

AggInvoices ==
    { Invoice(D2025_03, a, r, None) :
        a \in AggAmounts, r \in {None} \cup {Some(Rate(v)) : v \in AggRates} }

RECURSIVE SeqsUpTo(_, _)
SeqsUpTo(S, n) ==
    IF n = 0 THEN {<<>>}
    ELSE LET shorter == SeqsUpTo(S, n - 1)
         IN  shorter \cup {Append(q, x) : q \in {t \in shorter : Len(t) = n - 1}, x \in S}

AggInit ==
    /\ invoices \in SeqsUpTo(AggInvoices, MaxLen)
    /\ result = 0
    /\ pc = "start"
    /\ costs = <<>>
    /\ rates = <<>>
    /\ command = NoCommand
    /\ output = <<>>
    /\ status = "running"
    /\ cmds = 0
    /\ amount = 0
    /\ text = <<>>
    /\ rhs = 0
    /\ overflow_checks = TRUE

CallSumInvoices ==
    /\ pc = "start"
    /\ result' = sum_invoices(invoices)
    /\ pc' = "sum_invoices"
    /\ UNCHANGED <<invoices, costs, rates, command, output, status, cmds, amount, text,
                   rhs, overflow_checks>>

CallAverageInvoice ==
    /\ pc = "start"
    /\ result' = average_invoice(invoices)
    /\ pc' = "average_invoice"
    /\ UNCHANGED <<invoices, costs, rates, command, output, status, cmds, amount, text,
                   rhs, overflow_checks>>

AggNext ==
    \/ CallSumInvoices
    \/ CallAverageInvoice

SpecAgg == AggInit /\ [][AggNext]_vars

----------------------------------------------------------------------------
(* The operators of Money at the limits of the integer type.  i64 is scaled *)
(* down to Bits bits: IntMin and IntMax stand for i64::MIN and i64::MAX.   *)
(* The operators are written with the plain `+`, `-`, `*` and unary `-`,   *)
(* which panic on overflow when the build has overflow-checks on and wrap  *)
(* when it has them off; `/` panics on a zero divisor and on MIN / -1 in   *)
(* every build.                                                            *)

IntMin == -(2^(Bits - 1))
IntMax == 2^(Bits - 1) - 1

InRange(x) == IntMin <= x /\ x <= IntMax

\* the two's complement value of x
Wrap(x) == ((x - IntMin) % 2^Bits) + IntMin

\* the outcome of `+`, `-`, `*` or unary `-` whose exact value is x
Overflow(checks, x) ==
    IF InRange(x) THEN Ok(x)
    ELSE IF checks THEN Panic
    ELSE Ok(Wrap(x))

\* `/` on the integer type
WidthDiv(a, b) ==
    IF b = 0 THEN Panic
    ELSE IF a = IntMin /\ b = -1 THEN Panic
    ELSE Ok(TruncDiv(a, b))

\* impl Sub for Money
Money_sub(checks, a, b) == Overflow(checks, a - b)

\* impl Neg for Money
Money_neg(checks, a) == Overflow(checks, -a)

\* impl Add for Money
Money_add(checks, a, b) == Overflow(checks, a + b)

\* impl Div for Money
Money_div(checks, a, b) ==
    LET scaled == Overflow(checks, a * 100)
    IN  IF scaled.ok THEN WidthDiv(scaled.val, b) ELSE Panic

\* impl Div<i64> for Money
Money_div_i64(checks, a, n) == WidthDiv(a, n)

\* impl Mul for Money
Money_mul(checks, a, b) ==
    LET product == Overflow(checks, a * b)
    IN  IF product.ok THEN WidthDiv(product.val, 100) ELSE Panic

\* impl Mul<i64> for Money
Money_mul_i64(checks, a, n) == Overflow(checks, a * n)

\* impl Sum for Money: fold(Money { amount: 0 }, |a, b| a + b)
RECURSIVE Money_fold(_, _, _)
Money_fold(checks, s, acc) ==
    IF s = <<>> THEN Ok(acc)
    ELSE LET next == Money_add(checks, acc, Head(s))
         IN  IF next.ok THEN Money_fold(checks, Tail(s), next.val) ELSE Panic

Money_sum(checks, s) == Money_fold(checks, s, 0)

\* operands at and around the limits, zero and the scale
Operands ==
    {IntMin, IntMin + 1, -(IntMax \div 100) - 1, -100, -1, 0, 1, 2, 100,
     IntMax \div 100, (IntMax \div 100) + 1, IntMax - 1, IntMax}

\* the sequence summed by ArithSum
SumOperands(a, b) == <<a, b, -b>>

ArithInit ==
    /\ amount \in Operands
    /\ rhs \in Operands
    /\ overflow_checks \in BOOLEAN
    /\ result = Panic
    /\ pc = "start"
    /\ text = <<>>
    /\ invoices = <<>>
    /\ costs = <<>>
    /\ rates = <<>>
    /\ command = NoCommand
    /\ output = <<>>
    /\ status = "running"
    /\ cmds = 0

\* the operator named op has been applied to amount and rhs with outcome r
Applied(op, r) ==
    /\ pc = "start"
    /\ pc' = op
    /\ result' = r
    /\ UNCHANGED <<invoices, costs, rates, command, output, status, cmds, amount, text,
                   rhs, overflow_checks>>

ArithSub == Applied("sub", Money_sub(overflow_checks, amount, rhs))
ArithNeg == Applied("neg", Money_neg(overflow_checks, amount))
ArithAdd == Applied("add", Money_add(overflow_checks, amount, rhs))
ArithDiv == Applied("div", Money_div(overflow_checks, amount, rhs))
ArithDivScalar == Applied("div_i64", Money_div_i64(overflow_checks, amount, rhs))
ArithMul == Applied("mul", Money_mul(overflow_checks, amount, rhs))
ArithMulScalar == Applied("mul_i64", Money_mul_i64(overflow_checks, amount, rhs))
ArithSum == Applied("sum", Money_sum(overflow_checks, SumOperands(amount, rhs)))

ArithNext ==
    \/ ArithSub
    \/ ArithNeg
    \/ ArithAdd
    \/ ArithDiv
    \/ ArithDivScalar
    \/ ArithMul
    \/ ArithMulScalar
    \/ ArithSum

SpecArith == ArithInit /\ [][ArithNext]_vars

----------------------------------------------------------------------------
(* Texts of src/src/main.rs and src/src/moneybag.rs *)

Monthly == <<"m", "o", "n", "t", "h", "l", "y">>
YearDash == <<"2", "0", "2", "5", "-">>
D2025_04 == <<"2", "0", "2", "5", "-", "0", "4">>
Dev == <<"d", "e", "v">>
Ops == <<"o", "p", "s">>
Acme == <<"a", "c", "m", "e">>
Rent == <<"r", "e", "n", "t">>
Tax == <<"t", "a", "x">>
ColonSp == <<":", " ">>
SpParen == <<" ", "(">>
Times == <<" ", "*", " ">>
RateSp == <<"R", "a", "t", "e", " ">>
NotFoundInRates ==
    <<" ", "n", "o", "t", " ", "f", "o", "u", "n", "d", " ", "i", "n", " ",
      "r", "a", "t", "e", "s">>
CostsLabel == <<"C", "o", "s", "t", "s", ":", " ">>
InvoicesLabel == <<"I", "n", "v", "o", "i", "c", "e", "s", ":", " ">>
TotalLabel == <<"T", "o", "t", "a", "l", ":", " ">>
AverageLabel ==
    <<"A", "v", "e", "r", "a", "g", "e", " ", "i", "n", "v", "o", "i", "c", "e", ":", " ">>
BreakEvenLabel ==
    <<"I", "n", "v", "o", "i", "c", "e", "s", " ", "l", "e", "f", "t", " ", "t", "o", " ",
      "b", "r", "e", "a", "k", " ", "e", "v", "e", "n", ":", " ">>

\* println!("Rate {rate} not found in rates")
RateNotFound(name) == RateSp \o name \o NotFoundInRates

\* Display for Invoice
InvoiceDisplay(invoice) ==
    LET amt == IF invoice.rate # None
               THEN Format(MoneyMul(invoice.rate[1].rate, invoice.amount))
                        \o SpParen \o Format(invoice.amount) \o Times
                        \o Format(invoice.rate[1].rate) \o <<")">>
               ELSE Format(invoice.amount)
    IN  IF invoice.customer # None
        THEN invoice.date \o ColonSp \o amt \o SpParen \o invoice.customer[1] \o <<")">>
        ELSE invoice.date \o ColonSp \o amt

----------------------------------------------------------------------------
(* The ledger held by main, and the inputs of its commands *)

RateNames == {Dev, Ops}
RateValues == {765, 200}
InvoiceDates == {D2025_03}
InvoiceAmounts == {30, -30}
Customers == {None, Some(Acme)}
CostDates == {Monthly, D2025_03}
CostAmounts == {10000, 500}
CostNames == {Rent}

\* answers typed at the prompts of the edit commands; "" keeps the field
Keep == <<>>
A2_00 == <<"2", ".", "0", "0">>     \* "2.00"
A5_00 == <<"5", ".", "0", "0">>     \* "5.00"
Bad == <<"x">>                      \* not a number
RateAnswers == {Keep, A2_00, Bad}
\* edit_invoice: <<date, amount, customer, rate>>
InvoiceAnswers ==
    { <<Keep, Keep, Keep, Keep>>,
      <<D2025_04, Keep, Keep, Keep>>,
      <<Keep, A5_00, Keep, Keep>>,
      <<Keep, Keep, Acme, Keep>>,
      <<Keep, Keep, Keep, Dev>>,
      <<D2025_04, Bad, Keep, Keep>> }
\* edit_cost: <<date, amount, name>>
CostAnswers ==
    { <<Keep, Keep, Keep>>,
      <<D2025_04, Keep, Keep>>,
      <<Keep, A5_00, Keep>>,
      <<Keep, Keep, Tax>>,
      <<D2025_04, Bad, Keep>> }

\* load_moneybag when the file cannot be read
Init ==
    /\ invoices = <<>>
    /\ rates = <<>>
    /\ costs = <<>>
    /\ command = NoCommand
    /\ output = <<>>
    /\ status = "running"
    /\ cmds = 0
    /\ amount = 0
    /\ text = <<>>
    /\ result = 0
    /\ pc = "start"
    /\ rhs = 0
    /\ overflow_checks = TRUE

\* one iteration of the loop of main that reaches handle_command(c, ..)
Handling(c) ==
    /\ status = "running"
    /\ cmds < MaxCmds
    /\ cmds' = cmds + 1
    /\ command' = c
    /\ UNCHANGED <<amount, text, result, pc, rhs, overflow_checks>>

contains_key(map, name) == name \in DOMAIN map

\* HashMap::insert
MapInsert(map, name, value) ==
    [n \in (DOMAIN map) \cup {name} |-> IF n = name THEN value ELSE map[n]]

\* HashMap::remove
MapRemove(map, name) == [n \in (DOMAIN map) \ {name} |-> map[n]]

\* Vec::remove taking the index as one-based
VecRemoveNext(v, index) == SubSeq(v, 1, index + 1) \o SubSeq(v, index + 3, Len(v))

\* Vec::remove(index), index < len
VecRemove(v, index) == SubSeq(v, 1, index) \o SubSeq(v, index + 2, Len(v))

----------------------------------------------------------------------------
(* handle_add *)

AddRate(rate, name) ==
    /\ Handling([kind |-> "AddRate", rate |-> rate, name |-> name])
    /\ rates' = MapInsert(rates, name, Rate(rate))
    /\ output' = <<>>
    /\ UNCHANGED <<invoices, costs, status>>

\* handle_add falling back to a flat invoice when the rate is unknown
AddInvoiceFallback(date, amt, rate, customer) ==
    /\ Handling([kind |-> "AddInvoice", date |-> date, amount |-> amt, rate |-> rate,
                 customer |-> customer])
    /\ IF rate # None /\ contains_key(rates, rate[1])
       THEN /\ invoices' = Append(invoices,
                                  Invoice(date, amt, Some(rates[rate[1]]), customer))
            /\ output' = <<>>
       ELSE /\ invoices' = Append(invoices, Invoice(date, amt, None, customer))
            /\ output' = IF rate # None THEN <<RateNotFound(rate[1])>> ELSE <<>>
    /\ UNCHANGED <<costs, rates, status>>

\* rate is an Option<String>, customer an Option<String>
AddInvoice(date, amt, rate, customer) ==
    /\ Handling([kind |-> "AddInvoice", date |-> date, amount |-> amt, rate |-> rate,
                 customer |-> customer])
    /\ IF rate # None
       THEN IF contains_key(rates, rate[1])
            THEN /\ invoices' = Append(invoices,
                                       Invoice(date, amt, Some(rates[rate[1]]), customer))
                 /\ output' = <<>>
            ELSE /\ invoices' = invoices
                 /\ output' = <<RateNotFound(rate[1])>>
       ELSE /\ invoices' = Append(invoices, Invoice(date, amt, None, customer))
            /\ output' = <<>>
    /\ UNCHANGED <<costs, rates, status>>

\* format!("2025-{month}"): the month without padding
MonthDateUnpadded(month) == YearDash \o I64ToStr(month)

\* format!("2025-{month:02}")
MonthDate(month) == YearDash \o PadLeft0(I64ToStr(month), 2)

\* the costs pushed by the loop over 1..=12
MonthlyCosts(amt, name) == [month \in 1..12 |-> Cost(MonthDate(month), amt, name)]

AddCost(date, amt, name) ==
    /\ Handling([kind |-> "AddCost", date |-> date, amount |-> amt, name |-> name])
    /\ IF date = Monthly
       THEN costs' = costs \o MonthlyCosts(amt, name)
       ELSE costs' = Append(costs, Cost(date, amt, name))
    /\ output' = <<>>
    /\ UNCHANGED <<invoices, rates, status>>

----------------------------------------------------------------------------
(* handle_delete *)

DeleteRate(name) ==
    /\ Handling([kind |-> "DeleteRate", name |-> name])
    /\ rates' = MapRemove(rates, name)
    /\ output' = <<>>
    /\ UNCHANGED <<invoices, costs, status>>

\* Vec::remove panics when index >= len
DeleteInvoice(index) ==
    /\ Handling([kind |-> "DeleteInvoice", index |-> index])
    /\ output' = <<>>
    /\ IF index < Len(invoices)
       THEN /\ invoices' = VecRemove(invoices, index)
            /\ status' = status
       ELSE /\ invoices' = invoices
            /\ status' = "panicked"
    /\ UNCHANGED <<costs, rates>>

DeleteCost(index) ==
    /\ Handling([kind |-> "DeleteCost", index |-> index])
    /\ output' = <<>>
    /\ IF index < Len(costs)
       THEN /\ costs' = VecRemove(costs, index)
            /\ status' = status
       ELSE /\ costs' = costs
            /\ status' = "panicked"
    /\ UNCHANGED <<invoices, rates>>

----------------------------------------------------------------------------
(* handle_edit.  The texts in* are the answers prompt() returns, in order;  *)
(* what prompt() itself prints is not part of output.                      *)

edit_cost(index, inDate, inAmount, inName) ==
    /\ Handling([kind |-> "EditCost", index |-> index])
    /\ output' = <<>>
    /\ IF index >= Len(costs)
       THEN \* expect("Cost not found")
            /\ costs' = costs
            /\ status' = "panicked"
       ELSE LET cost == costs[index + 1]
                date1 == IF inDate # <<>> THEN inDate ELSE cost.date
                parse == FromStr(inAmount)
                name1 == IF inName # <<>> THEN inName ELSE cost.name
            IN  IF inAmount # <<>> /\ ~parse.ok
                THEN \* expect("Could not parse amount"), the date already assigned
                     /\ costs' = [costs EXCEPT ![index + 1].date = date1]
                     /\ status' = "panicked"
                ELSE /\ costs' = [costs EXCEPT ![index + 1] =
                            Cost(date1,
                                 IF inAmount # <<>> THEN parse.val ELSE cost.amount,
                                 name1)]
                     /\ status' = status
    /\ UNCHANGED <<invoices, rates>>

edit_invoice(index, inDate, inAmount, inCustomer, inRate) ==
    /\ Handling([kind |-> "EditInvoice", index |-> index])
    /\ IF index >= Len(invoices)
       THEN \* expect("Invoice not found")
            /\ invoices' = invoices
            /\ output' = <<>>
            /\ status' = "panicked"
       ELSE LET invoice == invoices[index + 1]
                date1 == IF inDate # <<>> THEN inDate ELSE invoice.date
                parse == FromStr(inAmount)
                customer1 == IF inCustomer # <<>> THEN Some(inCustomer)
                             ELSE invoice.customer
                found == contains_key(rates, inRate)
                rate1 == IF inRate # <<>> /\ found THEN Some(rates[inRate])
                         ELSE invoice.rate
            IN  IF inAmount # <<>> /\ ~parse.ok
                THEN \* expect("Could not parse amount"), the date already assigned
                     /\ invoices' = [invoices EXCEPT ![index + 1].date = date1]
                     /\ output' = <<>>
                     /\ status' = "panicked"
                ELSE /\ invoices' = [invoices EXCEPT ![index + 1] =
                            Invoice(date1,
                                    IF inAmount # <<>> THEN parse.val ELSE invoice.amount,
                                    rate1,
                                    customer1)]
                     /\ output' = IF inRate # <<>> /\ ~found
                                  THEN <<RateNotFound(inRate)>>
                                  ELSE <<>>
                     /\ status' = status
    /\ UNCHANGED <<costs, rates>>

\* edit_rate with invoices sharing the Rate they were created with
edit_rate_shared(name, inRate) ==
    /\ Handling([kind |-> "EditRate", name |-> name])
    /\ output' = <<>>
    /\ IF contains_key(rates, name) /\ inRate # <<>> /\ FromStr(inRate).ok
       THEN /\ rates' = [rates EXCEPT ![name] = Rate(FromStr(inRate).val)]
            /\ invoices' = [i \in 1..Len(invoices) |->
                              IF invoices[i].rate = Some(rates[name])
                              THEN [invoices[i] EXCEPT !.rate = Some(Rate(FromStr(inRate).val))]
                              ELSE invoices[i]]
            /\ status' = status
       ELSE /\ rates' = rates
            /\ invoices' = invoices
            /\ status' = IF contains_key(rates, name) /\ inRate = <<>>
                         THEN status ELSE "panicked"
    /\ UNCHANGED costs

edit_rate(name, inRate) ==
    /\ Handling([kind |-> "EditRate", name |-> name])
    /\ output' = <<>>
    /\ IF ~contains_key(rates, name)
       THEN \* expect("Rate not found")
            /\ rates' = rates
            /\ status' = "panicked"
       ELSE LET parse == FromStr(inRate)
            IN  IF inRate = <<>>
                THEN /\ rates' = rates
                     /\ status' = status
                ELSE IF parse.ok
                THEN /\ rates' = [rates EXCEPT ![name] = Rate(parse.val)]
                     /\ status' = status
                ELSE \* expect("Could not parse rate")
                     /\ rates' = rates
                     /\ status' = "panicked"
    /\ UNCHANGED <<invoices, costs>>

----------------------------------------------------------------------------
(* handle_list and the Balance arm of handle_command *)

\* println!("{i}: {invoice}") for each invoice, i counting from 0
ListInvoices ==
    /\ Handling([kind |-> "ListInvoices"])
    /\ output' = [i \in 1..Len(invoices) |->
                    I64ToStr(i - 1) \o ColonSp \o InvoiceDisplay(invoices[i])]
    /\ UNCHANGED <<invoices, costs, rates, status>>

\* the Balance arm guarding on "no invoices" instead of average.is_zero()
BalanceLinesGuardEmpty(cs, is) ==
    LET costsSum == sum_costs(cs)
        invoicesSum == sum_invoices(is)
        average == average_invoice(is)
        total == MoneySub(invoicesSum, costsSum)
        head == << CostsLabel \o Format(costsSum),
                   InvoicesLabel \o Format(invoicesSum),
                   TotalLabel \o Format(total),
                   AverageLabel \o Format(average.val) >>
        breakEven == MoneyDiv(MoneyNeg(total), average.val)
    IN  IF ~average.ok THEN Panic
        ELSE IF is = <<>> THEN Ok(head)
        ELSE IF ~breakEven.ok THEN Panic
        ELSE Ok(Append(head, BreakEvenLabel \o Format(breakEven.val)))

\* Ok(the lines the Balance arm prints), or Panic if a division in it panics
BalanceLines(cs, is) ==
    LET costsSum == sum_costs(cs)
        invoicesSum == sum_invoices(is)
        average == average_invoice(is)
        total == MoneySub(invoicesSum, costsSum)
        head == << CostsLabel \o Format(costsSum),
                   InvoicesLabel \o Format(invoicesSum),
                   TotalLabel \o Format(total),
                   AverageLabel \o Format(average.val) >>
        breakEven == MoneyDiv(MoneyNeg(total), average.val)
    IN  IF ~average.ok THEN Panic
        ELSE IF is_zero(average.val) THEN Ok(head)
        ELSE IF ~breakEven.ok THEN Panic
        ELSE Ok(Append(head, BreakEvenLabel \o Format(breakEven.val)))

Balance ==
    /\ Handling([kind |-> "Balance"])
    /\ LET lines == BalanceLines(costs, invoices)
       IN  IF lines.ok
           THEN /\ output' = lines.val
                /\ status' = status
           ELSE /\ output' = <<>>
                /\ status' = "panicked"
    /\ UNCHANGED <<invoices, costs, rates>>

----------------------------------------------------------------------------

Next ==
    \/ \E rate \in RateValues, name \in RateNames : AddRate(rate, name)
    \/ \E date \in InvoiceDates, amt \in InvoiceAmounts,
          rate \in {None} \cup {Some(n) : n \in RateNames}, customer \in Customers :
            AddInvoice(date, amt, rate, customer)
    \/ \E date \in CostDates, amt \in CostAmounts, name \in CostNames :
            AddCost(date, amt, name)
    \/ \E name \in RateNames : DeleteRate(name)
    \/ \E index \in 0..MaxIndex : DeleteInvoice(index)
    \/ \E index \in 0..MaxIndex : DeleteCost(index)
    \/ \E name \in RateNames, inRate \in RateAnswers : edit_rate(name, inRate)
    \/ \E index \in 0..MaxIndex, in \in InvoiceAnswers :
            edit_invoice(index, in[1], in[2], in[3], in[4])
    \/ \E index \in 0..MaxIndex, in \in CostAnswers :
            edit_cost(index, in[1], in[2], in[3])
    \/ ListInvoices
    \/ Balance

Spec == Init /\ [][Next]_vars

----------------------------------------------------------------------------
(* Properties.  The expected values below are stated without the           *)
(* operators of the model they are compared with.                          *)

\* the quotient n / d (d # 0) rounded toward zero: the integer q with
\* |q * d| <= |n| < |q * d| + |d|
TruncatedQuotient(n, d) ==
    LET fl == IF d > 0 THEN n \div d ELSE (-n) \div (-d)
    IN  CHOOSE q \in {fl, fl + 1} : Abs(q * d) <= Abs(n) /\ Abs(n - q * d) < Abs(d)

\* n in 0..99 as two decimal digits
TwoDigits(n) == <<DigitChars[(n \div 10) + 1], DigitChars[(n % 10) + 1]>>

\* s begins with the text p
StartsWith(s, p) == Len(s) >= Len(p) /\ SubSeq(s, 1, Len(p)) = p

\* C1: every Money whose amount is in -99..-1 is displayed as "-0.NN", NN being
\* the magnitude in two digits; Money(-1) is displayed as "-0.01".
C1_SmallNegativeKeepsSign ==
    (pc = "formatted" /\ amount \in -99..-1)
        => text = <<"-", "0", ".">> \o TwoDigits(-amount)

\* C2: parsing the text Display produces for Money(a) succeeds and yields Money(a),
\* for every a, negative amounts with a nonzero minor part included.
C2_RoundTrip == pc = "parsed" => result = [ok |-> TRUE, val |-> amount]

\* the invoices of C3: 1000 with no rate, then 50 at the captured rate 765
C3_Invoices ==
    << [date |-> D2025_03, amount |-> 1000, rate |-> <<>>, customer |-> <<>>],
       [date |-> D2025_03, amount |-> 50, rate |-> <<[rate |-> 765]>>, customer |-> <<>>] >>

\* C3 as stated: sum_invoices of C3_Invoices is 39250.
C3_SumIs39250 == (pc = "sum_invoices" /\ invoices = C3_Invoices) => result = 39250

\* C3, amended: sum_invoices of C3_Invoices is 1382, that is 1000 + (50 * 765) / 100
\* truncated.
C3_SumIs1382 == (pc = "sum_invoices" /\ invoices = C3_Invoices) => result = 1382

C3_Witness == pc = "sum_invoices" /\ invoices = C3_Invoices

\* the effective value of an invoice: (amount * rate) / 100 truncated, or the amount
ExpectedEffective(inv) ==
    IF inv.rate = <<>> THEN inv.amount
    ELSE TruncatedQuotient(inv.amount * inv.rate[1].rate, 100)

RECURSIVE ExpectedTotal(_, _)
ExpectedTotal(is, n) == IF n = 0 THEN 0 ELSE ExpectedTotal(is, n - 1) + ExpectedEffective(is[n])

\* C7: sum_invoices is the sum of the effective values, (amount * rate) / 100
\* truncated toward zero with a rate and the amount without; zero when empty.
C7_SumOfEffectiveValues ==
    pc = "sum_invoices" => result = ExpectedTotal(invoices, Len(invoices))

\* sum_invoices has run on a slice holding a negative product that 100 does not
\* divide, next to an invoice without a rate
C7_Witness ==
    /\ pc = "sum_invoices"
    /\ \E i \in 1..Len(invoices) :
         /\ invoices[i].rate # <<>>
         /\ invoices[i].amount * invoices[i].rate[1].rate < 0
         /\ (invoices[i].amount * invoices[i].rate[1].rate) % 100 # 0
    /\ \E i \in 1..Len(invoices) : invoices[i].rate = <<>>

\* C8: average_invoice returns Money(0) for the empty slice without panicking, and
\* otherwise sum_invoices divided by the number of invoices, truncated toward zero.
C8_AverageInvoice ==
    pc = "average_invoice" =>
        /\ result.ok
        /\ result.val = IF Len(invoices) = 0 THEN 0
                        ELSE TruncatedQuotient(ExpectedTotal(invoices, Len(invoices)),
                                               Len(invoices))

C8_Witness == pc = "average_invoice" /\ invoices = <<>> /\ result = [ok |-> TRUE, val |-> 0]

\* the command handled by a step is a rate command
RateCommand(c) == c.kind \in {"AddRate", "EditRate", "DeleteRate"}

\* C4: add-rate, edit-rate and delete-rate leave every invoice as it was, the rate
\* it captured, its effective value and its share of sum_invoices included; no
\* invoice loses its rate.
C4_RateCapturedByValue ==
    [][ RateCommand(command') =>
          /\ Len(invoices') = Len(invoices)
          /\ \A i \in 1..Len(invoices) :
               /\ invoices'[i] = invoices[i]
               /\ invoices'[i].rate = invoices[i].rate
               /\ ExpectedEffective(invoices'[i]) = ExpectedEffective(invoices[i])
          /\ sum_invoices(invoices') = sum_invoices(invoices) ]_vars

\* a rate command has just run, and an invoice holds a rate that is no longer in
\* the rate mapping
C4_Witness ==
    /\ RateCommand(command)
    /\ status = "running"
    /\ \E i \in 1..Len(invoices) :
         /\ invoices[i].rate # <<>>
         /\ \A n \in DOMAIN rates : rates[n] # invoices[i].rate[1]

\* C5: add-invoice naming a rate that is not a key of the rate mapping changes
\* nothing in the ledger and prints "Rate <name> not found in rates" without
\* panicking; naming a present rate it appends one invoice holding a copy of that
\* rate; naming no rate it appends one invoice without a rate.
C5_AddInvoice ==
    [][ command'.kind = "AddInvoice" =>
          LET c == command'
              named == c.rate # <<>>
              known == named /\ c.rate[1] \in DOMAIN rates
          IN  /\ costs' = costs
              /\ rates' = rates
              /\ status' = "running"
              /\ (named /\ ~known) =>
                    /\ invoices' = invoices
                    /\ output' = << <<"R", "a", "t", "e", " ">> \o c.rate[1] \o NotFoundInRates >>
              /\ (~named \/ known) =>
                    /\ Len(invoices') = Len(invoices) + 1
                    /\ \A i \in 1..Len(invoices) : invoices'[i] = invoices[i]
                    /\ invoices'[Len(invoices) + 1] =
                         [date |-> c.date, amount |-> c.amount, customer |-> c.customer,
                          rate |-> IF known THEN <<rates[c.rate[1]]>> ELSE <<>>]
                    /\ output' = <<>> ]_vars

\* add-invoice has just named a rate that is not a key, while the mapping holds
\* another rate and the ledger holds an invoice
C5_Witness ==
    /\ command.kind = "AddInvoice"
    /\ command.rate # <<>>
    /\ command.rate[1] \notin DOMAIN rates
    /\ DOMAIN rates # {}
    /\ Len(invoices) > 0
    /\ Len(output) = 1

\* C6: balance prints "Invoices left to break even" exactly when average_invoice is
\* not zero, the figure being (-total * 100) / average truncated toward zero with
\* total = sum_invoices - sum_costs; it never divides by zero, and omits the figure
\* when there is no invoice.
C6_BreakEven ==
    command.kind = "Balance" =>
        LET average == average_invoice(invoices).val
            total == sum_invoices(invoices) - sum_costs(costs)
        IN  /\ status = "running"
            /\ Len(output) = IF average # 0 THEN 5 ELSE 4
            /\ average # 0 =>
                 output[5] = BreakEvenLabel \o Format(TruncatedQuotient((-total) * 100, average))
            /\ invoices = <<>> => Len(output) = 4

\* balance has just printed a break-even figure that is negative and not whole
C6_Witness ==
    /\ command.kind = "Balance"
    /\ Len(output) = 5
    /\ LET average == average_invoice(invoices).val
           total == sum_invoices(invoices) - sum_costs(costs)
       IN  /\ ((-total) * 100 < 0) # (average < 0)
           /\ ((-total) * 100) % Abs(average) # 0

\* C9: add-cost with the date "monthly" appends twelve costs, months 1..12 in
\* order, each with the given amount and name and the date "2025-MM"; any other
\* date appends one cost with that date; the earlier costs, the invoices and the
\* rates stay.  One cost of 10000 plus a monthly 500 gives 13 costs summing to 16000.
C9_AddCost ==
    [][ command'.kind = "AddCost" =>
          LET c == command'
              n == Len(costs)
          IN  /\ invoices' = invoices
              /\ rates' = rates
              /\ \A i \in 1..n : costs'[i] = costs[i]
              /\ c.date = Monthly =>
                    /\ Len(costs') = n + 12
                    /\ \A m \in 1..12 :
                         costs'[n + m] =
                           [date |-> <<"2", "0", "2", "5", "-">> \o TwoDigits(m),
                            amount |-> c.amount, name |-> c.name]
              /\ c.date # Monthly =>
                    /\ Len(costs') = n + 1
                    /\ costs'[n + 1] = [date |-> c.date, amount |-> c.amount, name |-> c.name]
              /\ (c.date = Monthly /\ c.amount = 500 /\ n = 1 /\ costs[1].amount = 10000) =>
                    /\ Len(costs') = 13
                    /\ sum_costs(costs') = 16000 ]_vars

\* a monthly cost of 500 has just been added to a ledger holding one cost of 10000
C9_Witness ==
    /\ command.kind = "AddCost"
    /\ command.date = Monthly
    /\ command.amount = 500
    /\ Len(costs) = 13
    /\ costs[1].amount = 10000
    /\ costs[13].date = <<"2", "0", "2", "5", "-", "1", "2">>
    /\ sum_costs(costs) = 16000

\* C10: delete-invoice at a valid index removes that entry alone: the entries below
\* keep their index, those above move down by one, the length drops by one, the
\* costs and rates stay; list-invoices prefixes the entries with 0, 1, 2, ...
C10_DeleteInvoice ==
    [][ /\ (command'.kind = "DeleteInvoice" /\ command'.index < Len(invoices)) =>
             LET i == command'.index
             IN  /\ status' = "running"
                 /\ Len(invoices') = Len(invoices) - 1
                 /\ \A j \in 0..(Len(invoices) - 1) :
                      /\ j < i => invoices'[j + 1] = invoices[j + 1]
                      /\ j > i => invoices'[j] = invoices[j + 1]
                 /\ costs' = costs
                 /\ rates' = rates
        /\ command'.kind = "ListInvoices" =>
             /\ invoices' = invoices
             /\ Len(output') = Len(invoices)
             /\ \A k \in 1..Len(invoices) :
                  /\ StartsWith(output'[k], NatToStr(k - 1) \o <<":", " ">> \o invoices[k].date)
                  /\ output'[k] = NatToStr(k - 1) \o <<":", " ">> \o InvoiceDisplay(invoices[k])
      ]_vars

\* delete-invoice 0 has just removed the first of several invoices
C10_Witness ==
    /\ command.kind = "DeleteInvoice"
    /\ command.index = 0
    /\ status = "running"
    /\ Len(invoices) >= 1

\* the exact values an operator of Money computes on the way to its result: the
\* product in mul, the scaled dividend in div, the running totals in sum, and the
\* result itself
C11_ExactValues(op, a, b) ==
    CASE op = "sub" -> {a - b}
      [] op = "neg" -> {-a}
      [] op = "add" -> {a + b}
      [] op = "mul" -> {a * b}
      [] op = "mul_i64" -> {a * b}
      [] op = "div" -> {a * 100} \cup (IF b # 0 THEN {TruncatedQuotient(a * 100, b)} ELSE {})
      [] op = "div_i64" -> IF b # 0 THEN {TruncatedQuotient(a, b)} ELSE {}
      [] op = "sum" -> {a, a + b, a + b - b}

\* C11: an operator of Money whose exact result, or whose intermediate product,
\* scaled dividend or running total, lies outside the range of the integer type
\* panics; it never returns a wrapped Money.
C11_NeverWrapsSilently ==
    (pc \in {"sub", "neg", "add", "mul", "mul_i64", "div", "div_i64", "sum"}
        /\ \E x \in C11_ExactValues(pc, amount, rhs) : x < IntMin \/ x > IntMax)
      => ~result.ok

====
